---------------------------- MODULE Spec2Model ----------------------------
(***************************************************************************)
(* Ground-station control loop: telemetry fusion, heartbeat monitoring,    *)
(* heartbeat emission and command decision, each run by a worker loop      *)
(* under a cooperative controller.                                         *)
(*                                                                         *)
(* Units of the model.  Lengths are centimetres (0.5 m = 50), angles in    *)
(* radians are counted in steps of pi/36 (PI = 36, one step = 5 degrees),  *)
(* angles in degrees are whole degrees, times are quarter seconds          *)
(* (1.0 s = 4).  An optional value is a sequence: None = << >> and         *)
(* Some(v) = << v >>.                                                      *)
(***************************************************************************)
EXTENDS Integers, Sequences, FiniteSets, TLC

VARIABLES
    \* controller and worker positions
    pc,                  \* position of each worker in its function
    exit_requested,      \* controller.is_exit_requested()
    pause_requested,     \* controller: check_pause() blocks while set
    begun_after_exit,    \* units of work each worker began with the exit flag set
    \* Command object (command.py)
    total_velocity_x, total_velocity_y, total_velocity_z, sample_count,
    \* command worker (command_worker.py) and its collaborators
    input_queue,         \* queue of Some(TelemetryData) and None (sentinel)
    command_output_queue,
    telemetry_data,      \* argument of the last Command.run call
    last_run,            \* what the last Command.run call did
    run_calls,           \* number of Command.run calls made so far
    commands_sent,       \* number of command_long_send calls made so far
    sends_raised,        \* number of command_long_send calls that raised
    dequeued,            \* number of items the command worker has dequeued
    puts,                \* number of items put on input_queue so far
    \* HeartbeatReceiver (heartbeat_receiver.py) and its worker
    missed_heartbeats, is_connected,
    heartbeat_output_queue,
    recv_log,            \* what each recv_match call of the receiver did
    \* Telemetry.run (telemetry.py): its locals, and the telemetry worker
    attitude_data, position_data, attitude_time, position_time,
    remaining_timeout,
    elapsed,             \* time.time() - start_time when last read
    received,            \* number of messages the link has delivered
    call_start,          \* value of `received` when the current run() began
    telemetry_result,    \* payload of the last run() result (None: no snapshot)
    telemetry_output_queue,
    \* worker start-up and the create factories
    worker_args,         \* the connection, target and logger each worker got
    last_create,         \* the last direct call of a create factory
    \* heartbeat sender worker (heartbeat_sender_worker.py)
    clock,               \* time.time()
    t0,                  \* time.time() when line 66 ran
    next_heartbeat_time,
    iterations,          \* number of loop iterations the sender has completed
    last_send,           \* result of the last HeartbeatSender.run call
    now_read,            \* time.time() as read at line 81
    last_sleep,          \* what the last iteration slept (0: it did not sleep)
    send_times           \* time.time() at the start of each send so far

cmdObjVars == <<total_velocity_x, total_velocity_y, total_velocity_z, sample_count>>
cmdRunVars == <<telemetry_data, last_run, run_calls, commands_sent,
               sends_raised>>
cmdWorkerVars == <<input_queue, command_output_queue, dequeued, puts>>
ctlVars == <<pc, exit_requested, pause_requested>>
cmdVars == <<cmdObjVars, cmdRunVars, cmdWorkerVars>>
hbVars == <<missed_heartbeats, is_connected, heartbeat_output_queue, recv_log>>
telVars == <<attitude_data, position_data, attitude_time, position_time,
             remaining_timeout, elapsed, received, call_start,
             telemetry_result, telemetry_output_queue>>
startVars == <<worker_args, last_create>>
sndVars == <<clock, t0, next_heartbeat_time, iterations, last_send, now_read,
             last_sleep, send_times>>

---------------------------------------------------------------------------
(* Optional values and small helpers *)

None == << >>
Some(v) == << v >>
Val(o) == o[1]

Abs(n) == IF n < 0 THEN -n ELSE n
Max(a, b) == IF a >= b THEN a ELSE b

---------------------------------------------------------------------------
(* Program constants, in the units of the model *)

\* command.py: HEIGHT_TOLERANCE = 0.5 (m), here in cm
HEIGHT_TOLERANCE == 50
\* command.py: ANGLE_TOLERANCE = 5.0 (degrees)
ANGLE_TOLERANCE == 5
\* command.py: Z_SPEED = 1.0 (m/s)
Z_SPEED == 1
\* command.py: TURNING_SPEED = 5.0 (deg/s)
TURNING_SPEED == 5
\* math.pi, in steps of pi/36 rad
PI == 36

(* Bounds of the model *)
\* Command.run calls made directly on a Command object
MaxCalls == 2
\* items the environment puts on the command worker's input queue
MaxPuts == 3
\* recv_match calls of the heartbeat receiver
MaxPolls == 7
\* messages the link delivers to the telemetry worker
MaxMessages == 4
\* the heartbeat sender: loop iterations, the longest send (in quarter
\* seconds, longer than the period) and the latest time at which the worker
\* is still held up between two operations
MaxBeats == 3
MaxSendTime == 5
MaxClock == 6

---------------------------------------------------------------------------
(* Command (command.py) *)

\* math.degrees: rad -> deg
degrees(r) == (r * 180) \div PI

\* math.atan2(dy, dx) for the directions the model's positions produce
\* (axis-aligned and diagonal vectors, and the zero vector)
atan2(dy, dx) ==
    CASE dx > 0 /\ dy = 0   -> 0
      [] dx > 0 /\ dy = dx  -> PI \div 4
      [] dx = 0 /\ dy > 0   -> PI \div 2
      [] dx < 0 /\ dy = -dx -> 3 * (PI \div 4)
      [] dx < 0 /\ dy = 0   -> PI
      [] dx < 0 /\ dy = dx  -> -(3 * (PI \div 4))
      [] dx = 0 /\ dy < 0   -> -(PI \div 2)
      [] dx > 0 /\ dy = -dx -> -(PI \div 4)
      [] dx = 0 /\ dy = 0   -> 0

\* Position(x, y, z): the target handed to Command.create
Position(x, y, z) == [x |-> x, y |-> y, z |-> z]
target == Position(1000, 0, 500)

\* TelemetryData
TelemetryData(t, x, y, z, vx, vy, vz, roll, pitch, yaw, rs, ps, ys) ==
    [time_since_boot |-> t, x |-> x, y |-> y, z |-> z,
     x_velocity |-> vx, y_velocity |-> vy, z_velocity |-> vz,
     roll |-> roll, pitch |-> pitch, yaw |-> yaw,
     roll_speed |-> rs, pitch_speed |-> ps, yaw_speed |-> ys]

\* lines 111-119: the velocity accumulator
UpdateVelocityCountsIncomplete(self, td) ==
    IF td.x_velocity # None /\ td.y_velocity # None /\ td.z_velocity # None
    THEN [total_velocity_x |-> self.total_velocity_x + Val(td.x_velocity),
          total_velocity_y |-> self.total_velocity_y + Val(td.y_velocity),
          total_velocity_z |-> self.total_velocity_z + Val(td.z_velocity),
          sample_count     |-> self.sample_count + 1]
    ELSE [self EXCEPT !.sample_count = self.sample_count + 1]
UpdateVelocity(self, td) ==
    IF td.x_velocity # None /\ td.y_velocity # None /\ td.z_velocity # None
    THEN [total_velocity_x |-> self.total_velocity_x + Val(td.x_velocity),
          total_velocity_y |-> self.total_velocity_y + Val(td.y_velocity),
          total_velocity_z |-> self.total_velocity_z + Val(td.z_velocity),
          sample_count     |-> self.sample_count + 1]
    ELSE self

\* line 130: abs(delta_z) > HEIGHT_TOLERANCE
AltitudeNeededInclusive(delta_z) == Abs(delta_z) >= HEIGHT_TOLERANCE
AltitudeNeeded(delta_z) == Abs(delta_z) > HEIGHT_TOLERANCE

\* lines 132-144: the MAV_CMD_CONDITION_CHANGE_ALT command_long_send call
AltitudeCommandNoTarget(tgt) ==
    [command |-> "MAV_CMD_CONDITION_CHANGE_ALT",
     target_system |-> 1, target_component |-> 0, confirmation |-> 0,
     param1 |-> Z_SPEED, param2 |-> 0, param3 |-> 0, param4 |-> 0,
     param5 |-> 0, param6 |-> 0, param7 |-> 0]
AltitudeCommand(tgt) ==
    [command |-> "MAV_CMD_CONDITION_CHANGE_ALT",
     target_system |-> 1, target_component |-> 0, confirmation |-> 0,
     param1 |-> Z_SPEED, param2 |-> 0, param3 |-> 0, param4 |-> 0,
     param5 |-> 0, param6 |-> 0, param7 |-> tgt.z]

\* lines 178-190: the MAV_CMD_CONDITION_YAW command_long_send call
YawCommand(delta_yaw_deg) ==
    [command |-> "MAV_CMD_CONDITION_YAW",
     target_system |-> 1, target_component |-> 0, confirmation |-> 0,
     param1 |-> Abs(delta_yaw_deg), param2 |-> TURNING_SPEED,
     param3 |-> IF delta_yaw_deg >= 0 THEN 1 ELSE -1,
     param4 |-> 1, param5 |-> 0, param6 |-> 0, param7 |-> 0]

NoStep == [sends |-> << >>, returns |-> FALSE, status |-> None, delta_yaw |-> None]

\* lines 128-146: the altitude check; returns = the function returns here
AltitudeCheckFallThrough(tgt, td) ==
    IF td.z # None /\ AltitudeNeeded(tgt.z - Val(td.z))
    THEN [sends |-> << AltitudeCommand(tgt) >>, returns |-> FALSE,
          status |-> Some(<<"CHANGE ALTITUDE", tgt.z - Val(td.z)>>),
          delta_yaw |-> None]
    ELSE NoStep
AltitudeCheck(tgt, td) ==
    IF td.z # None
    THEN LET delta_z == tgt.z - Val(td.z)
         IN  IF AltitudeNeeded(delta_z)
             THEN [sends |-> << AltitudeCommand(tgt) >>, returns |-> TRUE,
                   status |-> Some(<<"CHANGE ALTITUDE", delta_z>>),
                   delta_yaw |-> None]
             ELSE NoStep
    ELSE NoStep

\* lines 165-168: the two normalisation loops
RECURSIVE WhileAbovePi(_)
WhileAbovePi(delta_yaw) ==
    IF delta_yaw > PI THEN WhileAbovePi(delta_yaw - 2 * PI) ELSE delta_yaw
RECURSIVE WhileBelowMinusPi(_)
WhileBelowMinusPi(delta_yaw) ==
    IF delta_yaw < -PI THEN WhileBelowMinusPi(delta_yaw + 2 * PI) ELSE delta_yaw
NormalizeYawOnce(delta_yaw) ==
    LET a == IF delta_yaw > PI THEN delta_yaw - 2 * PI ELSE delta_yaw
    IN  IF a < -PI THEN a + 2 * PI ELSE a
NormalizeYaw(delta_yaw) == WhileBelowMinusPi(WhileAbovePi(delta_yaw))

\* lines 155-162: desired_yaw - telemetry_data.yaw
RawDeltaYaw(tgt, td) ==
    atan2(tgt.y - Val(td.y), tgt.x - Val(td.x)) - Val(td.yaw)

\* line 173: abs(delta_yaw_deg) > ANGLE_TOLERANCE
YawNeededInclusive(delta_yaw_deg) == Abs(delta_yaw_deg) >= ANGLE_TOLERANCE
YawNeeded(delta_yaw_deg) == Abs(delta_yaw_deg) > ANGLE_TOLERANCE

\* lines 149-192: the yaw check
YawCheckNeedsAltitude(tgt, td) ==
    IF td.z # None /\ td.x # None /\ td.y # None /\ td.yaw # None
    THEN LET delta_yaw == NormalizeYaw(RawDeltaYaw(tgt, td))
             delta_yaw_deg == degrees(delta_yaw)
         IN  IF YawNeeded(delta_yaw_deg)
             THEN [sends |-> << YawCommand(delta_yaw_deg) >>, returns |-> TRUE,
                   status |-> Some(<<"CHANGE YAW", delta_yaw_deg>>),
                   delta_yaw |-> Some(delta_yaw)]
             ELSE [NoStep EXCEPT !.delta_yaw = Some(delta_yaw)]
    ELSE NoStep
YawCheckNeedsVelocity(tgt, td) ==
    IF td.x # None /\ td.y # None /\ td.yaw # None /\ td.y_velocity # None
    THEN LET delta_yaw == NormalizeYaw(RawDeltaYaw(tgt, td))
             delta_yaw_deg == degrees(delta_yaw)
         IN  IF YawNeeded(delta_yaw_deg)
             THEN [sends |-> << YawCommand(delta_yaw_deg) >>, returns |-> TRUE,
                   status |-> Some(<<"CHANGE YAW", delta_yaw_deg>>),
                   delta_yaw |-> Some(delta_yaw)]
             ELSE [NoStep EXCEPT !.delta_yaw = Some(delta_yaw)]
    ELSE NoStep
YawCheck(tgt, td) ==
    IF td.x # None /\ td.y # None /\ td.yaw # None
    THEN LET delta_yaw == NormalizeYaw(RawDeltaYaw(tgt, td))
             delta_yaw_deg == degrees(delta_yaw)
         IN  IF YawNeeded(delta_yaw_deg)
             THEN [sends |-> << YawCommand(delta_yaw_deg) >>, returns |-> TRUE,
                   status |-> Some(<<"CHANGE YAW", delta_yaw_deg>>),
                   delta_yaw |-> Some(delta_yaw)]
             ELSE [NoStep EXCEPT !.delta_yaw = Some(delta_yaw)]
    ELSE NoStep

\* The Command object as a record of its fields
Self == [total_velocity_x |-> total_velocity_x,
         total_velocity_y |-> total_velocity_y,
         total_velocity_z |-> total_velocity_z,
         sample_count     |-> sample_count]

\* lines 93-195: Command.run(telemetry_data).  link_ok = FALSE: the call of
\* command_long_send that this run makes (if any) raises.  The outcome:
\*   self      the object's fields after the call
\*   sends     the command_long_send calls made, in order
\*   result    the returned tuple (None when the call raised)
\*   raised    whether an exception left the call
\*   delta_yaw the normalised yaw difference, when the yaw check computed it
CommandRun(self, tgt, td, link_ok) ==
    IF td = None
    THEN [self |-> self, sends |-> << >>, result |-> Some(<<FALSE, None>>),
          raised |-> FALSE, delta_yaw |-> None]
    ELSE
    LET acc == UpdateVelocity(self, Val(td))
        alt == AltitudeCheck(tgt, Val(td))
    IN  IF alt.sends # << >> /\ ~link_ok
        THEN [self |-> acc, sends |-> alt.sends, result |-> None,
              raised |-> TRUE, delta_yaw |-> None]
        ELSE IF alt.returns
        THEN [self |-> acc, sends |-> alt.sends,
              result |-> Some(<<TRUE, alt.status>>),
              raised |-> FALSE, delta_yaw |-> None]
        ELSE
        LET yaw == YawCheck(tgt, Val(td))
        IN  IF yaw.sends # << >> /\ ~link_ok
            THEN [self |-> acc, sends |-> alt.sends \o yaw.sends,
                  result |-> None, raised |-> TRUE,
                  delta_yaw |-> yaw.delta_yaw]
            ELSE IF yaw.returns
            THEN [self |-> acc, sends |-> alt.sends \o yaw.sends,
                  result |-> Some(<<TRUE, yaw.status>>),
                  raised |-> FALSE, delta_yaw |-> yaw.delta_yaw]
            ELSE [self |-> acc, sends |-> alt.sends \o yaw.sends,
                  result |-> Some(<<FALSE, None>>),
                  raised |-> FALSE, delta_yaw |-> yaw.delta_yaw]

\* What the link can do during one Command.run call: command_long_send
\* returns (TRUE) or raises (FALSE); a call that sends nothing cannot raise
LinkOutcomes(td) ==
    IF CommandRun(Self, target, td, TRUE).sends = << >> THEN {TRUE} ELSE BOOLEAN

\* The effect of one Command.run call on the state
ApplyRun(td, link_ok) ==
    \E r \in {CommandRun(Self, target, td, link_ok)} :
        /\ total_velocity_x' = r.self.total_velocity_x
        /\ total_velocity_y' = r.self.total_velocity_y
        /\ total_velocity_z' = r.self.total_velocity_z
        /\ sample_count' = r.self.sample_count
        /\ telemetry_data' = td
        /\ last_run' = [sends |-> r.sends, result |-> r.result,
                        raised |-> r.raised, delta_yaw |-> r.delta_yaw]
        /\ run_calls' = run_calls + 1
        /\ commands_sent' = commands_sent + Len(r.sends)
        /\ sends_raised' = sends_raised + (IF r.raised THEN 1 ELSE 0)

---------------------------------------------------------------------------
(* Inputs *)

\* (x, y) pairs: x absent, y absent, and the bearings 0 and pi to the target
XYValues ==
    { <<None, Some(0)>>, <<Some(0), None>>, <<Some(0), Some(0)>>,
      <<Some(2000), Some(0)>> }
\* z: absent, on target, 0.5 m and 0.51 m below, 0.51 m above, 2 m below
ZValues ==
    { None, Some(target.z), Some(target.z - 50), Some(target.z - 51),
      Some(target.z + 51), Some(target.z - 200) }
\* yaw: absent, 0, -5, 180, -200 and -560 degrees
YawValues ==
    { None, Some(0), Some(-1), Some(PI), Some(-40), Some(-112) }
\* velocity triples: one component absent, and two full readings
VelocityValues ==
    { <<Some(1), None, Some(-1)>>,
      <<Some(1), Some(1), Some(-1)>>, <<Some(2), Some(1), Some(-1)>> }

Snapshots ==
    { TelemetryData(0, xy[1], xy[2], z, v[1], v[2], v[3],
                    Some(0), Some(0), yaw, Some(0), Some(0), Some(0)) :
        xy \in XYValues, z \in ZValues, yaw \in YawValues, v \in VelocityValues }

---------------------------------------------------------------------------
(* HeartbeatReceiver (heartbeat_receiver.py) *)

\* heartbeat_receiver.py: DISCONNECT_THRESHOLD = 5
DISCONNECT_THRESHOLD == 5

\* what one recv_match(type="HEARTBEAT", blocking=True, timeout=...) call does:
\* it returns a HEARTBEAT message, returns None at the timeout, or raises
RecvOutcomes == {"HEARTBEAT", "timeout", "error"}

\* lines 96 and 104: missed_heartbeats >= DISCONNECT_THRESHOLD
ThresholdExceeded(missed) == missed > DISCONNECT_THRESHOLD
ThresholdReached(missed) == missed >= DISCONNECT_THRESHOLD

\* lines 83-87: a heartbeat was received
OnHeartbeatKeepCount(self) ==
    [missed_heartbeats |-> self.missed_heartbeats, is_connected |-> TRUE]
OnHeartbeat(self) ==
    [missed_heartbeats |-> 0, is_connected |-> TRUE]

\* lines 88-98: recv_match returned None (or a message of another type)
OnMissRecomputesState(self) ==
    [missed_heartbeats |-> self.missed_heartbeats + 1,
     is_connected |-> ~ThresholdReached(self.missed_heartbeats + 1)]
OnMiss(self) ==
    [missed_heartbeats |-> self.missed_heartbeats + 1,
     is_connected |-> IF ThresholdReached(self.missed_heartbeats + 1)
                      THEN FALSE ELSE self.is_connected]

\* lines 100-105: recv_match raised; the handler counts a miss, applies the
\* threshold and lets the exception go no further
OnExceptionNoThreshold(self) ==
    [missed_heartbeats |-> self.missed_heartbeats + 1,
     is_connected |-> self.is_connected]
OnException(self) ==
    [missed_heartbeats |-> self.missed_heartbeats + 1,
     is_connected |-> IF ThresholdReached(self.missed_heartbeats + 1)
                      THEN FALSE ELSE self.is_connected]

\* lines 108-109: the returned tuple
ReceiverStatus(self) ==
    <<TRUE, IF self.is_connected THEN "connected" ELSE "disconnected">>

\* lines 66-109: HeartbeatReceiver.run() when recv_match does `outcome`
ReceiverRunStaleStatus(self, outcome) ==
    LET after == CASE outcome = "HEARTBEAT" -> OnHeartbeat(self)
                   [] outcome = "timeout"   -> OnMiss(self)
                   [] outcome = "error"     -> OnException(self)
    IN  [self |-> after, result |-> ReceiverStatus(self)]
ReceiverRun(self, outcome) ==
    LET after == CASE outcome = "HEARTBEAT" -> OnHeartbeat(self)
                   [] outcome = "timeout"   -> OnMiss(self)
                   [] outcome = "error"     -> OnException(self)
    IN  [self |-> after, result |-> ReceiverStatus(after)]

---------------------------------------------------------------------------
(* Telemetry (telemetry.py) *)

\* telemetry.py: TELEMETRY_TIMEOUT = 1.0 (s), in quarter seconds
TELEMETRY_TIMEOUT == 4

\* ATTITUDE and LOCAL_POSITION_NED messages; seq is the position of the
\* message in the stream the link delivers (it tells two messages apart)
AttitudeMessage(t, yaw, seq) ==
    [type |-> "ATTITUDE", time_boot_ms |-> t, roll |-> 0, pitch |-> 0,
     yaw |-> yaw, rollspeed |-> 0, pitchspeed |-> 0, yawspeed |-> 0,
     seq |-> seq]
PositionMessage(t, x, seq) ==
    [type |-> "LOCAL_POSITION_NED", time_boot_ms |-> t, x |-> x, y |-> 0,
     z |-> 500, vx |-> 1, vy |-> 1, vz |-> -1, seq |-> seq]

\* time_boot_ms values of the messages (ms)
MessageTimes == {100, 200}
\* the messages the link can deliver as its seq-th message
Messages(seq) ==
    { AttitudeMessage(t, yaw, seq) : t \in MessageTimes, yaw \in {0, 9} }
    \cup { PositionMessage(t, x, seq) : t \in MessageTimes, x \in {0, 1000} }

\* lines 128-131: the slots and times at the start of a run() call
StaleSlots(prev) == prev
FreshSlots(prev) ==
    [attitude_data |-> None, position_data |-> None,
     attitude_time |-> 0, position_time |-> 0]

\* lines 142-153: the received message is stored in the slot of its type
StoreMessageKeepsFirst(slots, msg) ==
    IF msg.type = "ATTITUDE" /\ slots.attitude_data = None
    THEN [slots EXCEPT !.attitude_data = Some(msg),
                       !.attitude_time = msg.time_boot_ms]
    ELSE IF msg.type = "LOCAL_POSITION_NED" /\ slots.position_data = None
    THEN [slots EXCEPT !.position_data = Some(msg),
                       !.position_time = msg.time_boot_ms]
    ELSE slots
StoreMessage(slots, msg) ==
    IF msg.type = "ATTITUDE"
    THEN [slots EXCEPT !.attitude_data = Some(msg),
                       !.attitude_time = msg.time_boot_ms]
    ELSE IF msg.type = "LOCAL_POSITION_NED"
    THEN [slots EXCEPT !.position_data = Some(msg),
                       !.position_time = msg.time_boot_ms]
    ELSE slots

\* line 158: max(attitude_time, position_time)
AttitudeTimeOnly(att_time, pos_time) == att_time
MostRecentTime(att_time, pos_time) == Max(att_time, pos_time)

\* lines 163-177: the TelemetryData built from the two slots
FuseSlots(slots) ==
    LET a == Val(slots.attitude_data)
        p == Val(slots.position_data)
    IN  TelemetryData(MostRecentTime(slots.attitude_time, slots.position_time),
                      Some(p.x), Some(p.y), Some(p.z),
                      Some(p.vx), Some(p.vy), Some(p.vz),
                      Some(a.roll), Some(a.pitch), Some(a.yaw),
                      Some(a.rollspeed), Some(a.pitchspeed), Some(a.yawspeed))

\* line 156: both messages are there
BothSlotsFilled(slots) ==
    slots.attitude_data # None /\ slots.position_data # None

Slots == [attitude_data |-> attitude_data, position_data |-> position_data,
          attitude_time |-> attitude_time, position_time |-> position_time]

SetSlots(slots) ==
    /\ attitude_data' = slots.attitude_data
    /\ position_data' = slots.position_data
    /\ attitude_time' = slots.attitude_time
    /\ position_time' = slots.position_time

---------------------------------------------------------------------------
(* The create factories and what a worker is started with *)

\* command.py lines 45-72: Command.create(connection, target, local_logger)
CommandCreateIgnoresTarget(connection, tgt, local_logger) ==
    IF connection = None \/ local_logger = None
    THEN <<FALSE, None>>
    ELSE <<TRUE, Some("Command")>>
CommandCreate(connection, tgt, local_logger) ==
    IF connection = None \/ tgt = None \/ local_logger = None
    THEN <<FALSE, None>>
    ELSE <<TRUE, Some("Command")>>

\* heartbeat_receiver.py lines 30-51: HeartbeatReceiver.create(connection,
\* local_logger)
HeartbeatReceiverCreate(connection, local_logger) ==
    IF connection = None \/ local_logger = None
    THEN <<FALSE, None>>
    ELSE <<TRUE, Some("HeartbeatReceiver")>>

\* telemetry.py lines 82-104: Telemetry.create(connection, local_logger)
TelemetryCreate(connection, local_logger) ==
    IF connection = None \/ local_logger = None
    THEN <<FALSE, None>>
    ELSE <<TRUE, Some("Telemetry")>>

\* heartbeat_sender.py lines 19-36: HeartbeatSender.create(connection)
HeartbeatSenderCreate(connection) ==
    IF connection = None
    THEN <<FALSE, None>>
    ELSE <<TRUE, Some("HeartbeatSender")>>

\* the class each worker instantiates
Component ==
    [telemetry |-> "Telemetry", heartbeat_receiver |-> "HeartbeatReceiver",
     heartbeat_sender |-> "HeartbeatSender", command |-> "Command"]

\* the create call of class c; an argument the factory does not take is None
Create(c, connection, tgt, local_logger) ==
    CASE c = "Command" -> CommandCreate(connection, tgt, local_logger)
      [] c = "HeartbeatReceiver" ->
             HeartbeatReceiverCreate(connection, local_logger)
      [] c = "Telemetry" -> TelemetryCreate(connection, local_logger)
      [] c = "HeartbeatSender" -> HeartbeatSenderCreate(connection)

\* arguments a caller can pass: each is missing or present
Connections == {None, Some("mavfile")}
Loggers == {None, Some("logger")}
Targets(c) == IF c = "Command" THEN {None, Some(target)} ELSE {None}

---------------------------------------------------------------------------
(* Initial state *)

Workers == {"telemetry", "heartbeat_receiver", "heartbeat_sender", "command"}

\* every worker function is about to be entered
InitController ==
    /\ pc = [w \in Workers |-> "start"]
    /\ begun_after_exit = [w \in Workers |-> 0]
    /\ exit_requested = FALSE
    /\ pause_requested = FALSE

\* Command.__init__ (lines 83-91) and the empty queues of the command worker
InitCommand ==
    /\ total_velocity_x = 0
    /\ total_velocity_y = 0
    /\ total_velocity_z = 0
    /\ sample_count = 0
    /\ telemetry_data = None
    /\ last_run = [sends |-> << >>, result |-> None, raised |-> FALSE,
                   delta_yaw |-> None]
    /\ run_calls = 0
    /\ commands_sent = 0
    /\ sends_raised = 0
    /\ input_queue = << >>
    /\ command_output_queue = << >>
    /\ dequeued = 0
    /\ puts = 0

\* HeartbeatReceiver.__init__ (lines 63-64)
InitHeartbeatReceiver ==
    /\ missed_heartbeats = 0
    /\ is_connected = FALSE
    /\ heartbeat_output_queue = << >>
    /\ recv_log = << >>

\* the telemetry worker before its first Telemetry.run call
InitTelemetry ==
    /\ attitude_data = None
    /\ position_data = None
    /\ attitude_time = 0
    /\ position_time = 0
    /\ remaining_timeout = 0
    /\ elapsed = 0
    /\ received = 0
    /\ call_start = 0
    /\ telemetry_result = None
    /\ telemetry_output_queue = << >>

\* no worker has been given its arguments, no factory has been called
InitStart ==
    /\ worker_args = [w \in Workers |-> None]
    /\ last_create = None

\* the heartbeat sender worker before line 66
InitHeartbeatSender ==
    /\ clock = 0
    /\ t0 = 0
    /\ next_heartbeat_time = 0
    /\ iterations = 0
    /\ last_send = None
    /\ now_read = 0
    /\ last_sleep = 0
    /\ send_times = << >>

Init ==
    /\ InitController /\ InitCommand /\ InitHeartbeatReceiver /\ InitTelemetry
    /\ InitStart /\ InitHeartbeatSender

vars == <<ctlVars, begun_after_exit, cmdVars, hbVars, telVars, startVars,
          sndVars>>

---------------------------------------------------------------------------
(* Command.run called directly on a Command object *)

Decide ==
    /\ run_calls < MaxCalls
    /\ \E td \in {Some(s) : s \in Snapshots} \cup {None} :
         \E link_ok \in LinkOutcomes(td) : ApplyRun(td, link_ok)
    /\ UNCHANGED <<startVars, sndVars, begun_after_exit>>
    /\ UNCHANGED <<ctlVars, cmdWorkerVars, hbVars, telVars>>

NextDecide == Decide
SpecDecide == Init /\ [][NextDecide]_vars

---------------------------------------------------------------------------
(* The controller (utilities.workers.worker_controller, an external        *)
(* collaborator): another process requests exit, pause and resume          *)

RequestExit ==
    /\ ~exit_requested
    /\ exit_requested' = TRUE
    /\ UNCHANGED <<startVars, sndVars, begun_after_exit>>
    /\ UNCHANGED <<pc, pause_requested, cmdVars, hbVars, telVars>>

RequestPause ==
    /\ ~pause_requested
    /\ pause_requested' = TRUE
    /\ UNCHANGED <<startVars, sndVars, begun_after_exit>>
    /\ UNCHANGED <<pc, exit_requested, cmdVars, hbVars, telVars>>

RequestResume ==
    /\ pause_requested
    /\ pause_requested' = FALSE
    /\ UNCHANGED <<startVars, sndVars, begun_after_exit>>
    /\ UNCHANGED <<pc, exit_requested, cmdVars, hbVars, telVars>>

\* `while not controller.is_exit_requested():` of worker w
CheckExitSkipsPause(w) ==
    /\ pc[w] = "check_exit"
    /\ pc' = [pc EXCEPT ![w] = IF exit_requested THEN "exited" ELSE "work"]
    /\ UNCHANGED <<startVars, sndVars, begun_after_exit>>
    /\ UNCHANGED <<exit_requested, pause_requested, cmdVars, hbVars, telVars>>
CheckExit(w) ==
    /\ pc[w] = "check_exit"
    /\ pc' = [pc EXCEPT ![w] = IF exit_requested THEN "exited" ELSE "check_pause"]
    /\ UNCHANGED <<startVars, sndVars, begun_after_exit>>
    /\ UNCHANGED <<exit_requested, pause_requested, cmdVars, hbVars, telVars>>

\* `controller.check_pause()` of worker w: returns once no pause is requested
CheckPause(w) ==
    /\ pc[w] = "check_pause"
    /\ ~pause_requested
    /\ pc' = [pc EXCEPT ![w] = "work"]
    /\ begun_after_exit' =
          [begun_after_exit EXCEPT ![w] = @ + (IF exit_requested THEN 1 ELSE 0)]
    /\ UNCHANGED <<startVars, sndVars>>
    /\ UNCHANGED <<exit_requested, pause_requested, cmdVars, hbVars, telVars>>

---------------------------------------------------------------------------
(* Worker start-up: the lines of each worker function before its loop *)

\* Logger.create succeeded (`if not result: ... return` otherwise), then the
\* worker's create call returned True (`if not result: ... return` otherwise):
\* command_worker.py 43-60, heartbeat_receiver_worker.py 39-56,
\* telemetry_worker.py 39-56, heartbeat_sender_worker.py 41-58
EntersLoop(w, connection, tgt, local_logger) ==
    /\ local_logger # None
    /\ Create(Component[w], connection, tgt, local_logger)[1]

\* worker function w runs from its entry to its loop, or returns
StartPc(w) ==
    /\ pc[w] = "start"
    /\ \E connection \in Connections, tgt \in Targets(Component[w]),
          local_logger \in Loggers :
          /\ worker_args' = [worker_args EXCEPT ![w] =
                 Some([connection |-> connection, target |-> tgt,
                       logger |-> local_logger])]
          /\ pc' = [pc EXCEPT ![w] =
                 IF EntersLoop(w, connection, tgt, local_logger)
                 THEN "check_exit" ELSE "returned"]
    /\ UNCHANGED <<exit_requested, pause_requested, begun_after_exit,
                   last_create>>

\* start-up of the workers whose loop needs nothing set up before it
StartWorker(w) ==
    /\ StartPc(w)
    /\ UNCHANGED <<cmdVars, hbVars, telVars, sndVars>>

\* a create factory called directly, with any combination of arguments
CreateDirect ==
    /\ \E c \in {Component[w] : w \in Workers} :
         \E connection \in Connections, tgt \in Targets(c),
            local_logger \in (IF c = "HeartbeatSender" THEN {None} ELSE Loggers) :
            last_create' = Some([class |-> c, connection |-> connection,
                                 target |-> tgt, logger |-> local_logger,
                                 result |-> Create(c, connection, tgt,
                                                   local_logger)])
    /\ UNCHANGED <<ctlVars, begun_after_exit, worker_args, cmdVars, hbVars,
                   telVars, sndVars>>

---------------------------------------------------------------------------
(* The command worker (command_worker.py) *)

\* the snapshots the environment puts on the command worker's input queue:
\* nothing to do, altitude off, yaw off, both off
QueueSnapshots ==
    { s \in Snapshots :
        /\ s.x = Some(0) /\ s.y = Some(0)
        /\ s.x_velocity = Some(1) /\ s.y_velocity = Some(1)
        /\ <<s.z, s.yaw>> \in { <<Some(target.z), Some(0)>>,
                                <<Some(target.z - 200), Some(0)>>,
                                <<Some(target.z), Some(-40)>>,
                                <<Some(target.z - 51), Some(-40)>> } }

\* a producer puts a snapshot on the input queue
PutTelemetry ==
    /\ puts < MaxPuts
    /\ \E s \in QueueSnapshots : input_queue' = Append(input_queue, Some(s))
    /\ puts' = puts + 1
    /\ UNCHANGED <<startVars, sndVars, begun_after_exit>>
    /\ UNCHANGED <<ctlVars, cmdObjVars, cmdRunVars, command_output_queue,
                   dequeued, hbVars, telVars>>

\* the main process puts the sentinel on the input queue
PutSentinel ==
    /\ puts < MaxPuts
    /\ input_queue' = Append(input_queue, None)
    /\ puts' = puts + 1
    /\ UNCHANGED <<startVars, sndVars, begun_after_exit>>
    /\ UNCHANGED <<ctlVars, cmdObjVars, cmdRunVars, command_output_queue,
                   dequeued, hbVars, telVars>>

\* lines 77-79: where the loop goes after dequeuing the sentinel (break)
AfterSentinelContinue == "check_exit"
AfterSentinel == "exited"

\* line 74, queue empty: get(timeout=0.5) raises Empty, the handler at
\* lines 91-93 continues
CommandGetBlocksForever ==
    /\ FALSE
    /\ UNCHANGED vars
CommandGetEmpty ==
    /\ pc["command"] = "work"
    /\ input_queue = << >>
    /\ pc' = [pc EXCEPT !["command"] = "check_exit"]
    /\ UNCHANGED <<startVars, sndVars, begun_after_exit>>
    /\ UNCHANGED <<exit_requested, pause_requested, cmdVars, hbVars, telVars>>

\* lines 74-79: the sentinel is dequeued
CommandGetSentinel ==
    /\ pc["command"] = "work"
    /\ input_queue # << >>
    /\ Head(input_queue) = None
    /\ input_queue' = Tail(input_queue)
    /\ dequeued' = dequeued + 1
    /\ telemetry_data' = None
    /\ pc' = [pc EXCEPT !["command"] = AfterSentinel]
    /\ UNCHANGED <<startVars, sndVars, begun_after_exit>>
    /\ UNCHANGED <<exit_requested, pause_requested, cmdObjVars, last_run,
                   run_calls, commands_sent, sends_raised,
                   command_output_queue, puts,
                   hbVars, telVars>>

\* lines 86-88: the status is put on the output queue when run succeeded
PutStatusWhateverResult(queue, r) ==
    IF r.result # None
    THEN Append(queue, Val(r.result)[2])
    ELSE queue
PutStatus(queue, r) ==
    IF r.result # None /\ Val(r.result)[1] /\ Val(r.result)[2] # None
    THEN Append(queue, Val(Val(r.result)[2]))
    ELSE queue

\* lines 74-93: a snapshot is dequeued, Command.run decides, the status is
\* put; an exception raised by the link inside run is caught at line 91
CommandProcess ==
    /\ pc["command"] = "work"
    /\ input_queue # << >>
    /\ Head(input_queue) # None
    /\ input_queue' = Tail(input_queue)
    /\ dequeued' = dequeued + 1
    /\ \E link_ok \in LinkOutcomes(Head(input_queue)) :
          /\ ApplyRun(Head(input_queue), link_ok)
          /\ command_output_queue' = PutStatus(command_output_queue, last_run')
    /\ pc' = [pc EXCEPT !["command"] = "check_exit"]
    /\ UNCHANGED <<startVars, sndVars, begun_after_exit>>
    /\ UNCHANGED <<exit_requested, pause_requested, puts, hbVars, telVars>>

NextCommand ==
    \/ StartWorker("command")
    \/ RequestExit
    \/ RequestPause
    \/ RequestResume
    \/ CheckExit("command")
    \/ CheckPause("command")
    \/ PutTelemetry
    \/ PutSentinel
    \/ CommandGetEmpty
    \/ CommandGetSentinel
    \/ CommandProcess

SpecCommand == Init /\ [][NextCommand]_vars

---------------------------------------------------------------------------
(* The heartbeat receiver worker (heartbeat_receiver_worker.py) *)

HeartbeatSelf ==
    [missed_heartbeats |-> missed_heartbeats, is_connected |-> is_connected]

\* lines 68-74: one receiver.run() call and the put of its status
HeartbeatPoll ==
    /\ pc["heartbeat_receiver"] = "work"
    /\ Len(recv_log) < MaxPolls
    /\ \E outcome \in RecvOutcomes :
         \E r \in {ReceiverRun(HeartbeatSelf, outcome)} :
            /\ missed_heartbeats' = r.self.missed_heartbeats
            /\ is_connected' = r.self.is_connected
            /\ heartbeat_output_queue' =
                   IF r.result[1]
                   THEN Append(heartbeat_output_queue, r.result[2])
                   ELSE heartbeat_output_queue
            /\ recv_log' = Append(recv_log, outcome)
    /\ pc' = [pc EXCEPT !["heartbeat_receiver"] = "check_exit"]
    /\ UNCHANGED <<startVars, sndVars, begun_after_exit>>
    /\ UNCHANGED <<exit_requested, pause_requested, cmdVars, telVars>>

NextHeartbeat ==
    \/ StartWorker("heartbeat_receiver")
    \/ RequestExit
    \/ RequestPause
    \/ RequestResume
    \/ CheckExit("heartbeat_receiver")
    \/ CheckPause("heartbeat_receiver")
    \/ HeartbeatPoll

SpecHeartbeat == Init /\ [][NextHeartbeat]_vars

---------------------------------------------------------------------------
(* The telemetry worker (telemetry_worker.py) running Telemetry.run *)

\* telemetry_worker.py line 69 and telemetry.py lines 125-131: run() is
\* entered; the first test of `while remaining_timeout > 0` succeeds
TelemetryStart ==
    /\ pc["telemetry"] = "work"
    /\ SetSlots(FreshSlots(Slots))
    /\ remaining_timeout' = TELEMETRY_TIMEOUT
    /\ elapsed' = 0
    /\ call_start' = received
    /\ pc' = [pc EXCEPT !["telemetry"] = "recv"]
    /\ UNCHANGED <<startVars, sndVars, begun_after_exit>>
    /\ UNCHANGED <<exit_requested, pause_requested, received, telemetry_result,
                   telemetry_output_queue, cmdVars, hbVars>>

\* telemetry_worker.py lines 69-74: what the worker does with the tuple
\* Telemetry.run returned
TelemetryPutWhateverResult(queue, result) == Append(queue, result[2])
TelemetryPut(queue, result) ==
    IF result[1] /\ result[2] # None
    THEN Append(queue, Val(result[2]))
    ELSE queue

\* lines 183-188 and telemetry_worker.py lines 69-74: after an iteration that
\* did not return, the budget is recomputed; when it is used up run() returns
\* (False, None) and the worker puts nothing
AfterIteration(now) ==
    /\ elapsed' = now
    /\ remaining_timeout' = TELEMETRY_TIMEOUT - now
    /\ IF TELEMETRY_TIMEOUT - now > 0
       THEN /\ pc' = [pc EXCEPT !["telemetry"] = "recv"]
            /\ UNCHANGED telemetry_result
            /\ UNCHANGED telemetry_output_queue
       ELSE /\ pc' = [pc EXCEPT !["telemetry"] = "check_exit"]
            /\ telemetry_result' = None
            /\ telemetry_output_queue' =
                   TelemetryPut(telemetry_output_queue, <<FALSE, None>>)

\* lines 134-184: recv_match returns a message after d quarter seconds
TelemetryReceive ==
    /\ pc["telemetry"] = "recv"
    /\ received < MaxMessages
    /\ \E msg \in Messages(received + 1), d \in 0..remaining_timeout :
         \E slots \in {StoreMessage(Slots, msg)} :
            /\ SetSlots(slots)
            /\ received' = received + 1
            /\ IF BothSlotsFilled(slots)
               THEN /\ telemetry_result' = Some(FuseSlots(slots))
                    /\ telemetry_output_queue' =
                           TelemetryPut(telemetry_output_queue,
                                        <<TRUE, Some(FuseSlots(slots))>>)
                    /\ pc' = [pc EXCEPT !["telemetry"] = "check_exit"]
                    /\ UNCHANGED <<elapsed, remaining_timeout>>
               ELSE AfterIteration(elapsed + d)
    /\ UNCHANGED <<startVars, sndVars, begun_after_exit>>
    /\ UNCHANGED <<exit_requested, pause_requested, call_start, cmdVars, hbVars>>

\* lines 134-188: recv_match returns None when its timeout has passed
TelemetryTimeout ==
    /\ pc["telemetry"] = "recv"
    /\ AfterIteration(elapsed + remaining_timeout)
    /\ UNCHANGED <<startVars, sndVars, begun_after_exit>>
    /\ UNCHANGED <<exit_requested, pause_requested, attitude_data, position_data,
                   attitude_time, position_time, received, call_start,
                   cmdVars, hbVars>>

\* line 136: recv_match raises; nothing in Telemetry.run or in the worker
\* loop catches it, so the exception leaves telemetry_worker
TelemetryLinkError ==
    /\ pc["telemetry"] = "recv"
    /\ pc' = [pc EXCEPT !["telemetry"] = "crashed"]
    /\ UNCHANGED <<startVars, sndVars, begun_after_exit>>
    /\ UNCHANGED <<exit_requested, pause_requested, telVars, cmdVars, hbVars>>

NextTelemetry ==
    \/ StartWorker("telemetry")
    \/ RequestExit
    \/ RequestPause
    \/ RequestResume
    \/ CheckExit("telemetry")
    \/ CheckPause("telemetry")
    \/ TelemetryStart
    \/ TelemetryReceive
    \/ TelemetryTimeout
    \/ TelemetryLinkError

SpecTelemetry == Init /\ [][NextTelemetry]_vars

---------------------------------------------------------------------------
(* HeartbeatSender (heartbeat_sender.py) and its worker                    *)
(* (heartbeat_sender_worker.py)                                            *)

\* heartbeat_sender_worker.py: HEARTBEAT_PERIOD = 1 (s), in quarter seconds
HEARTBEAT_PERIOD == 4

\* heartbeat_sender.py lines 58-68: heartbeat_send returns (TRUE) or raises
HeartbeatSenderRun(link_ok) == <<link_ok, None>>

\* lines 80-81: the next deadline and the time left until it, `now` being
\* what time.time() returns at line 81
ScheduleFromNow(deadline, now) ==
    [next_heartbeat_time |-> now + HEARTBEAT_PERIOD,
     sleep_time |-> HEARTBEAT_PERIOD]
Schedule(deadline, now) ==
    [next_heartbeat_time |-> deadline + HEARTBEAT_PERIOD,
     sleep_time |-> (deadline + HEARTBEAT_PERIOD) - now]

\* lines 82-83: what the iteration sleeps
SleptNever(sleep_time) == 0
Slept(sleep_time) == IF sleep_time > 0 THEN sleep_time ELSE 0

\* lines 41-66: start-up, then `next_heartbeat_time = time.time()`
StartSender ==
    /\ StartPc("heartbeat_sender")
    /\ next_heartbeat_time' = IF pc'["heartbeat_sender"] = "check_exit"
                              THEN clock ELSE next_heartbeat_time
    /\ t0' = IF pc'["heartbeat_sender"] = "check_exit" THEN clock ELSE t0
    /\ UNCHANGED <<clock, iterations, last_send, now_read, last_sleep,
                   send_times>>
    /\ UNCHANGED <<cmdVars, hbVars, telVars>>

\* time goes by while the worker is between two operations (before it is
\* started, between iterations, or blocked in check_pause)
TimePasses ==
    /\ pc["heartbeat_sender"] \in {"start", "check_exit", "check_pause"}
    /\ clock < MaxClock
    /\ clock' = clock + 1
    /\ UNCHANGED <<t0, next_heartbeat_time, iterations, last_send, now_read,
                   last_sleep, send_times>>
    /\ UNCHANGED <<ctlVars, begun_after_exit, startVars, cmdVars, hbVars,
                   telVars>>

\* lines 73-83: one heartbeat is sent (the send takes `d` and succeeds or
\* not), the deadline moves on and the worker sleeps until it
SenderSend ==
    /\ pc["heartbeat_sender"] = "work"
    /\ iterations < MaxBeats
    /\ \E link_ok \in BOOLEAN, d \in 0..MaxSendTime :
         \E sch \in {Schedule(next_heartbeat_time, clock + d)} :
            /\ last_send' = Some(HeartbeatSenderRun(link_ok))
            /\ next_heartbeat_time' = sch.next_heartbeat_time
            /\ now_read' = clock + d
            /\ last_sleep' = Slept(sch.sleep_time)
            /\ clock' = clock + d + Slept(sch.sleep_time)
    /\ iterations' = iterations + 1
    /\ send_times' = Append(send_times, clock)
    /\ pc' = [pc EXCEPT !["heartbeat_sender"] = "check_exit"]
    /\ UNCHANGED <<exit_requested, pause_requested, begun_after_exit, t0,
                   startVars>>
    /\ UNCHANGED <<cmdVars, hbVars, telVars>>

NextSender ==
    \/ StartSender
    \/ RequestExit
    \/ RequestPause
    \/ RequestResume
    \/ CheckExit("heartbeat_sender")
    \/ CheckPause("heartbeat_sender")
    \/ TimePasses
    \/ SenderSend

SpecSender == Init /\ [][NextSender]_vars

---------------------------------------------------------------------------
(* The four workers and the factories.  The workers share no state but the *)
(* controller's two flags, so a behaviour follows one of them from its     *)
(* start, or calls the factories directly.                                 *)

\* nothing has happened yet
NothingStarted ==
    /\ \A w \in Workers : pc[w] = "start"
    /\ last_create = None

\* worker function w has been entered
Running(w) == pc[w] # "start"

Next ==
    \/ NothingStarted /\ StartWorker("command")
    \/ NothingStarted /\ StartWorker("heartbeat_receiver")
    \/ NothingStarted /\ StartWorker("telemetry")
    \/ NothingStarted /\ StartSender
    \/ Running("command") /\ NextCommand
    \/ Running("heartbeat_receiver") /\ NextHeartbeat
    \/ Running("telemetry") /\ NextTelemetry
    \/ Running("heartbeat_sender") /\ NextSender
    \/ (\A w \in Workers : pc[w] = "start") /\ CreateDirect

Spec == Init /\ [][Next]_vars

---------------------------------------------------------------------------
(* Progress of the workers.  A worker process keeps running: its exit test *)
(* is evaluated, check_pause returns once no pause is requested, and its   *)
(* unit of work ends, every blocking call in it being bounded              *)
(* (queue.get(timeout=0.5), recv_match(timeout=...), time.sleep(sleep_time)).*)

\* the unit of work of worker w: the steps of its loop body
UnitOfWork(w) ==
    \/ w = "command" /\ (CommandGetEmpty \/ CommandGetSentinel \/ CommandProcess)
    \/ w = "heartbeat_receiver" /\ HeartbeatPoll
    \/ w = "telemetry" /\
          (TelemetryStart \/ TelemetryReceive \/ TelemetryTimeout
             \/ TelemetryLinkError)
    \/ w = "heartbeat_sender" /\ SenderSend

\* a step of worker w other than check_pause returning
Continue(w) == CheckExit(w) \/ UnitOfWork(w)

\* a behaviour follows one worker, so fairness to the workers' steps taken
\* together is fairness to the one that runs
Progress ==
    /\ WF_vars(\E w \in Workers : Continue(w))
    /\ SF_vars(\E w \in Workers : CheckPause(w))

SpecLive == Init /\ [][Next]_vars /\ Progress

---------------------------------------------------------------------------
(* Properties of Command.run (checked under SpecDecide) *)

\* the snapshot the last Command.run call was given
LastSnapshot == Val(telemetry_data)
IsAltitude(c) == c.command = "MAV_CMD_CONDITION_CHANGE_ALT"
IsYaw(c) == c.command = "MAV_CMD_CONDITION_YAW"

\* C1: one call of Command.run makes zero or exactly one command_long_send
\* call, whatever the snapshot and whatever calls came before.
C1_AtMostOneCommandPerRun ==
    [][run_calls' = run_calls + 1 =>
          /\ commands_sent' - commands_sent \in {0, 1}
          /\ Len(last_run'.sends) = commands_sent' - commands_sent]_vars

C1_Witness ==
    /\ run_calls >= 2
    /\ sample_count >= 1
    /\ commands_sent >= 2
    /\ Len(last_run.sends) = 1

AltitudeOutOfTolerance(td) ==
    td.z # None /\ Abs(target.z - Val(td.z)) > HEIGHT_TOLERANCE
YawOutOfTolerance(td) ==
    /\ td.x # None /\ td.y # None /\ td.yaw # None
    /\ Abs(degrees(NormalizeYaw(RawDeltaYaw(target, td)))) > ANGLE_TOLERANCE

\* C2: when both the altitude delta and the normalised yaw delta are out of
\* tolerance, the call issues exactly one command, the altitude one, and the
\* yaw check is not evaluated.
C2_AltitudeHasPriority ==
    (/\ telemetry_data # None
     /\ AltitudeOutOfTolerance(LastSnapshot)
     /\ YawOutOfTolerance(LastSnapshot))
    => /\ Len(last_run.sends) = 1
       /\ IsAltitude(last_run.sends[1])
       /\ last_run.delta_yaw = None

C2_Witness ==
    /\ telemetry_data # None
    /\ AltitudeOutOfTolerance(LastSnapshot)
    /\ YawOutOfTolerance(LastSnapshot)
    /\ Len(last_run.sends) = 1
    /\ IsAltitude(last_run.sends[1])

\* delta_z = target.z - z of the last snapshot is exactly d centimetres
DeltaZIs(d) ==
    /\ telemetry_data # None
    /\ LastSnapshot.z # None
    /\ target.z - Val(LastSnapshot.z) = d

\* C3 as stated: delta_z exactly 0.5 m issues no command whatever the other
\* fields are; delta_z = 0.51 m issues exactly one command.
C3_AsStated ==
    /\ DeltaZIs(50) => last_run.sends = << >>
    /\ DeltaZIs(51) => Len(last_run.sends) = 1

\* C3 amended: delta_z exactly 0.5 m issues no altitude command (the yaw check
\* still runs and may issue the one yaw command); delta_z = 0.51 m issues
\* exactly one command, the altitude one.
C3_ToleranceBoundary ==
    /\ DeltaZIs(50) =>
          \/ last_run.sends = << >>
          \/ Len(last_run.sends) = 1 /\ IsYaw(last_run.sends[1])
    /\ DeltaZIs(50) /\ ~YawOutOfTolerance(LastSnapshot) => last_run.sends = << >>
    /\ DeltaZIs(51) =>
          Len(last_run.sends) = 1 /\ IsAltitude(last_run.sends[1])

C3_Witness ==
    /\ DeltaZIs(50)
    /\ Len(last_run.sends) = 1
    /\ IsYaw(last_run.sends[1])

\* the yaw difference before normalisation, for the last snapshot
LastRawDeltaYaw == RawDeltaYaw(target, LastSnapshot)
\* 200 degrees in steps of pi/36
RawDelta200 == (200 * PI) \div 180

\* C10 as stated: the normalised delta is congruent to the raw delta modulo a
\* full turn and lies in (-pi, pi]; a raw delta of 200 degrees normalises to
\* -160 degrees with direction -1.
C10_AsStated ==
    last_run.delta_yaw # None =>
        /\ (Val(last_run.delta_yaw) - LastRawDeltaYaw) % (2 * PI) = 0
        /\ Val(last_run.delta_yaw) > -PI
        /\ Val(last_run.delta_yaw) <= PI
        /\ LastRawDeltaYaw = RawDelta200 =>
              /\ degrees(Val(last_run.delta_yaw)) = -160
              /\ Len(last_run.sends) = 1
              /\ last_run.sends[1].param3 = -1

\* C10 amended: the normalised delta is congruent to the raw delta modulo a
\* full turn and lies in the closed interval [-pi, pi] (a raw delta of exactly
\* -pi stays -pi); a raw delta of 200 degrees normalises to -160 degrees with
\* direction -1.
C10_YawNormalization ==
    last_run.delta_yaw # None =>
        /\ (Val(last_run.delta_yaw) - LastRawDeltaYaw) % (2 * PI) = 0
        /\ Val(last_run.delta_yaw) >= -PI
        /\ Val(last_run.delta_yaw) <= PI
        /\ LastRawDeltaYaw = -PI => Val(last_run.delta_yaw) = -PI
        /\ LastRawDeltaYaw = RawDelta200 =>
              /\ degrees(Val(last_run.delta_yaw)) = -160
              /\ Len(last_run.sends) = 1
              /\ IsYaw(last_run.sends[1])
              /\ last_run.sends[1].param1 = 160
              /\ last_run.sends[1].param3 = -1

C10_Witness ==
    /\ last_run.delta_yaw # None
    /\ LastRawDeltaYaw = RawDelta200
    /\ Val(last_run.delta_yaw) = -32
    /\ last_run.sends[1].param3 = -1

---------------------------------------------------------------------------
(* Properties of HeartbeatReceiver (checked under SpecHeartbeat) *)

HeartbeatEverReceived == \E i \in 1..Len(recv_log) : recv_log[i] = "HEARTBEAT"

\* the last n recv_match calls all missed (timeout or error)
LastPollsMissed(n) ==
    /\ Len(recv_log) >= n
    /\ \A i \in (Len(recv_log) - n + 1)..Len(recv_log) : recv_log[i] # "HEARTBEAT"

\* C4 as stated: in every reachable state, the initial one included, the
\* state is Disconnected if and only if missed >= DISCONNECT_THRESHOLD.
C4_AsStated ==
    (~is_connected) <=> (missed_heartbeats >= DISCONNECT_THRESHOLD)

\* C4 amended: in every reachable state the state is Disconnected if and only
\* if missed >= DISCONNECT_THRESHOLD or no heartbeat has been received yet
\* (the receiver starts Disconnected with a count of 0).
C4_DisconnectedIff ==
    (~is_connected) <=>
        (missed_heartbeats >= DISCONNECT_THRESHOLD \/ ~HeartbeatEverReceived)

C4_Witness ==
    /\ HeartbeatEverReceived
    /\ missed_heartbeats = DISCONNECT_THRESHOLD
    /\ ~is_connected
    /\ Len(heartbeat_output_queue) > DISCONNECT_THRESHOLD

\* C5: after DISCONNECT_THRESHOLD consecutive polls that miss the state is
\* Disconnected, and right after a poll that receives a heartbeat the missed
\* counter is 0 and the state is Connected, however many misses came before.
C5_MissesAndRecovery ==
    /\ LastPollsMissed(DISCONNECT_THRESHOLD) => ~is_connected
    /\ (recv_log # << >> /\ recv_log[Len(recv_log)] = "HEARTBEAT") =>
          missed_heartbeats = 0 /\ is_connected

\* a heartbeat received right after DISCONNECT_THRESHOLD misses that followed
\* an earlier heartbeat
C5_Witness ==
    /\ Len(recv_log) = DISCONNECT_THRESHOLD + 2
    /\ recv_log[1] = "HEARTBEAT"
    /\ \A i \in 2..(DISCONNECT_THRESHOLD + 1) : recv_log[i] # "HEARTBEAT"
    /\ recv_log[DISCONNECT_THRESHOLD + 2] = "HEARTBEAT"
    /\ missed_heartbeats = 0
    /\ is_connected

---------------------------------------------------------------------------
(* Properties of Telemetry.run (checked under SpecTelemetry) *)

\* the telemetry worker is outside Telemetry.run, after a normal return
TelemetryReturned ==
    pc["telemetry"] \in {"check_exit", "check_pause", "work", "exited"}

\* C6: a returned snapshot's time_since_boot is the maximum of the timestamps
\* of the attitude message and the position message it was built from.
C6_SnapshotTimeIsMax ==
    (TelemetryReturned /\ telemetry_result # None) =>
        Val(telemetry_result).time_since_boot =
            Max(Val(attitude_data).time_boot_ms, Val(position_data).time_boot_ms)

\* a snapshot built after a message was overwritten, the attitude being newer
C6_Witness ==
    /\ TelemetryReturned
    /\ telemetry_result # None
    /\ received - call_start >= 3
    /\ Val(attitude_data).time_boot_ms > Val(position_data).time_boot_ms
    /\ Val(telemetry_result).time_since_boot = Val(attitude_data).time_boot_ms

\* C7: a call in which only one message type arrived returns no snapshot; a
\* call starts with both slots empty; the two messages a returned snapshot is
\* built from were both received during the call that returned it.
C7_NoCarryOver ==
    /\ (pc["telemetry"] = "recv" /\ received = call_start) =>
          attitude_data = None /\ position_data = None
    /\ (TelemetryReturned /\ (attitude_data = None) # (position_data = None)) =>
          telemetry_result = None
    /\ (TelemetryReturned /\ telemetry_result # None) =>
          /\ Val(attitude_data).seq > call_start
          /\ Val(position_data).seq > call_start

\* a call starts empty after a call that received one message and timed out
C7_Witness ==
    /\ pc["telemetry"] = "recv"
    /\ call_start = 1
    /\ received = 1
    /\ telemetry_result = None
    /\ telemetry_output_queue = << >>
    /\ attitude_data = None
    /\ position_data = None

---------------------------------------------------------------------------
(* Properties of the worker loops *)

\* the command worker has dequeued the sentinel
SentinelObserved == dequeued > 0 /\ telemetry_data = None

\* C8 (under SpecCommand): once the command worker has dequeued the sentinel
\* it is out of its loop and stays out: nothing more is dequeued, Command.run
\* is not called, no command is sent and no status is put.
C8_SentinelStopsWorker ==
    [][SentinelObserved =>
          /\ pc["command"] = "exited"
          /\ pc'["command"] = "exited"
          /\ dequeued' = dequeued
          /\ run_calls' = run_calls
          /\ commands_sent' = commands_sent
          /\ command_output_queue' = command_output_queue]_vars

\* the worker has left its loop with a snapshot still behind the sentinel
C8_Witness ==
    /\ SentinelObserved
    /\ pc["command"] = "exited"
    /\ ~exit_requested
    /\ input_queue # << >>
    /\ Head(input_queue) # None

\* C9 (under SpecTelemetry): an exception raised by a link receive or send
\* never terminates a worker: no worker is ever left by an exception.
C9_LinkErrorNeverEndsWorker ==
    \A w \in Workers : pc[w] # "crashed"

---------------------------------------------------------------------------
(* The exception branch of HeartbeatReceiver.run (checked under            *)
(* SpecHeartbeat)                                                          *)

\* the poll this step makes ended with recv_match raising
ErrorPollStep ==
    /\ Len(recv_log') = Len(recv_log) + 1
    /\ recv_log'[Len(recv_log')] = "error"

\* C11: a poll whose recv_match raises leaves the missed counter, the
\* connectivity state and the returned status exactly as a poll that timed
\* out would have left them from the same starting state, and the exception
\* is not propagated: run returns its status, the worker puts it on the queue
\* and goes on to its next iteration.
C11_ExceptionLikeTimeout ==
    [][ErrorPollStep =>
          LET timed_out == ReceiverRun(HeartbeatSelf, "timeout") IN
          /\ missed_heartbeats' = timed_out.self.missed_heartbeats
          /\ is_connected' = timed_out.self.is_connected
          /\ timed_out.result[1]
          /\ heartbeat_output_queue' =
                 Append(heartbeat_output_queue, timed_out.result[2])
          /\ pc'["heartbeat_receiver"] = "check_exit"]_vars

\* the exception that is the DISCONNECT_THRESHOLD-th miss in a row after a
\* heartbeat: the receiver has just gone from Connected to Disconnected
C11_Witness ==
    /\ Len(recv_log) = DISCONNECT_THRESHOLD + 1
    /\ recv_log[1] = "HEARTBEAT"
    /\ \A i \in 2..DISCONNECT_THRESHOLD : recv_log[i] = "timeout"
    /\ recv_log[DISCONNECT_THRESHOLD + 1] = "error"
    /\ missed_heartbeats = DISCONNECT_THRESHOLD
    /\ ~is_connected
    /\ heartbeat_output_queue[Len(heartbeat_output_queue)] = "disconnected"

---------------------------------------------------------------------------
(* Properties of the create factories and of worker start-up (checked      *)
(* under Spec)                                                             *)

\* the inputs the factory of class c requires, as passed
RequiredInputs(c, connection, tgt, local_logger) ==
    CASE c = "Command" -> {connection, tgt, local_logger}
      [] c = "HeartbeatSender" -> {connection}
      [] OTHER -> {connection, local_logger}

\* worker w was given a logger and every input its factory requires
WorkerInputsPresent(w) ==
    LET a == Val(worker_args[w]) IN
    /\ a.logger # None
    /\ None \notin RequiredInputs(Component[w], a.connection, a.target, a.logger)

\* worker w has received nothing, sent nothing and touched no queue
NoWorkDone(w) ==
    CASE w = "command" ->
            /\ dequeued = 0 /\ run_calls = 0 /\ commands_sent = 0
            /\ command_output_queue = << >>
      [] w = "heartbeat_receiver" ->
            recv_log = << >> /\ heartbeat_output_queue = << >>
      [] w = "telemetry" ->
            /\ received = 0 /\ telemetry_result = None
            /\ telemetry_output_queue = << >>
      [] w = "heartbeat_sender" -> iterations = 0 /\ last_send = None

\* C12: every create factory returns (False, None) when one of its required
\* inputs is missing and (True, instance) otherwise; a worker whose logger or
\* whose create call failed has returned before its loop and has done no
\* receive, no send and no queue operation, and a worker with all its inputs
\* is never in that position.
C12_CreateAndStartUp ==
    /\ last_create # None =>
          LET c == Val(last_create) IN
          c.result = IF None \in RequiredInputs(c.class, c.connection,
                                                c.target, c.logger)
                     THEN <<FALSE, None>>
                     ELSE <<TRUE, Some(c.class)>>
    /\ \A w \in Workers :
          worker_args[w] # None =>
             /\ (pc[w] = "returned") <=> ~WorkerInputsPresent(w)
             /\ pc[w] = "returned" => NoWorkDone(w)

\* the command worker was given a connection and a logger but no target: it
\* has returned, and the snapshots put on its input queue stay there
C12_Witness ==
    /\ worker_args["command"] =
          Some([connection |-> Some("mavfile"), target |-> None,
                logger |-> Some("logger")])
    /\ pc["command"] = "returned"
    /\ Len(input_queue) = MaxPuts
    /\ dequeued = 0

---------------------------------------------------------------------------
(* Properties of the heartbeat sender worker (checked under SpecSender)    *)

\* the sender worker has passed line 66
SenderInLoop == pc["heartbeat_sender"] \notin {"start", "returned"}

\* C13: the sender's deadline is the loop start time plus one
\* HEARTBEAT_PERIOD per completed iteration, however long the sends took and
\* whether or not they succeeded, and an iteration sleeps exactly the
\* positive part of (deadline - now), nothing when the deadline has passed.
C13_DeadlineSchedule ==
    SenderInLoop =>
       /\ next_heartbeat_time = t0 + iterations * HEARTBEAT_PERIOD
       /\ iterations > 0 =>
             last_sleep = Max(0, next_heartbeat_time - now_read)

\* a worker started late whose second send failed and ended after the
\* deadline: it did not sleep, and the deadline is still t0 + 2 periods
C13_Witness ==
    /\ SenderInLoop
    /\ t0 > 0
    /\ iterations = 2
    /\ last_send = Some(<<FALSE, None>>)
    /\ now_read > next_heartbeat_time
    /\ last_sleep = 0
    /\ next_heartbeat_time = t0 + 2 * HEARTBEAT_PERIOD

---------------------------------------------------------------------------
(* Properties of the worker loops (checked under Spec)                     *)

\* everything worker w's unit of work reads from the link, sends on it, gets
\* from a queue or puts on one shows in these variables
WorkOf(w) ==
    CASE w = "command" ->
            <<cmdObjVars, cmdRunVars, command_output_queue, dequeued>>
      [] w = "heartbeat_receiver" -> <<hbVars>>
      [] w = "telemetry" -> <<telVars>>
      [] w = "heartbeat_sender" ->
            <<next_heartbeat_time, iterations, last_send, now_read, last_sleep>>

\* the positions of a worker inside its unit of work
AtWork == {"work", "recv"}

\* what one step may do to worker w's position and work
LoopStep(w) ==
    \* work is done only from inside the unit of work
    /\ WorkOf(w)' # WorkOf(w) => pc[w] \in AtWork
    \* the unit of work is entered only by check_pause returning
    /\ (pc'[w] \in AtWork /\ pc[w] \notin AtWork) =>
          pc[w] = "check_pause" /\ ~pause_requested /\ pc'[w] = "work"
    \* check_pause is reached only by reading the exit flag as not requested
    /\ (pc'[w] = "check_pause" /\ pc[w] # "check_pause") =>
          pc[w] = "check_exit" /\ ~exit_requested
    \* reading the exit flag as requested ends the loop
    /\ (pc[w] = "check_exit" /\ pc'[w] # "check_exit") =>
          pc'[w] = IF exit_requested THEN "exited" ELSE "check_pause"
    \* a finished unit of work leads back to the exit test, or out of the loop
    /\ (pc[w] \in AtWork /\ pc'[w] \notin AtWork) =>
          pc'[w] \in {"check_exit", "exited", "crashed"}
    \* a worker that left its loop stays out of it
    /\ pc[w] \in {"exited", "returned", "crashed"} => pc'[w] = pc[w]

\* C14: in every worker loop an iteration reads the exit flag, then passes
\* check_pause, then does its unit of work: no receive, send, get or put
\* happens unless the exit flag was read as not requested and check_pause
\* returned since the previous unit of work, and a worker that reads the exit
\* flag as requested leaves the loop and does nothing more.
C14_ExitThenPauseThenWork ==
    [][\A w \in Workers : LoopStep(w)]_vars

\* the command worker has read the exit flag as requested after processing a
\* snapshot, and a snapshot is still waiting on its input queue
C14_Witness ==
    /\ pc["command"] = "exited"
    /\ exit_requested
    /\ run_calls > 0
    /\ input_queue # << >>
    /\ Head(input_queue) # None

---------------------------------------------------------------------------
(* Properties of the decision of Command.run (checked under SpecDecide)    *)

\* Command objects with other accumulator contents than the one that ran
OtherInstances ==
    { [total_velocity_x |-> a, total_velocity_y |-> a,
       total_velocity_z |-> -a, sample_count |-> n] :
         a \in {0, 3}, n \in {0, 2} }

\* the snapshots that agree with s on x, y, z and yaw
SamePose(s) ==
    { s2 \in Snapshots :
        s2.x = s.x /\ s2.y = s.y /\ s2.z = s.z /\ s2.yaw = s.yaw }

\* C15: the velocity accumulator and the velocity fields play no part in the
\* decision: whatever the accumulator of a Command object holds and whatever
\* the velocity fields of a snapshot are, a run on a snapshot with the same
\* x, y, z and yaw makes the same command_long_send call and returns the same
\* status as the run that was just made.
C15_VelocityPlaysNoPart ==
    telemetry_data # None =>
       \A other \in OtherInstances : \A s2 \in SamePose(LastSnapshot) :
          LET r == CommandRun(other, target, Some(s2), ~last_run.raised) IN
          /\ r.sends = last_run.sends
          /\ r.result = last_run.result

\* the second run of an object that has accumulated one sample, on a
\* snapshot with an incomplete velocity reading, sends a yaw command
C15_Witness ==
    /\ run_calls = 2
    /\ sample_count = 1
    /\ telemetry_data # None
    /\ LastSnapshot.y_velocity = None
    /\ Len(last_run.sends) = 1
    /\ IsYaw(last_run.sends[1])
    /\ ~last_run.raised

\* the last run made an altitude (a yaw) command_long_send call
AltitudeSent == \E i \in 1..Len(last_run.sends) : IsAltitude(last_run.sends[i])
YawSent == \E i \in 1..Len(last_run.sends) : IsYaw(last_run.sends[i])

\* C16: a run sends an altitude command if and only if z is present and
\* |target.z - z| > HEIGHT_TOLERANCE; the command's vertical rate is Z_SPEED
\* and its target altitude is target.z; the status the run returns is
\* "CHANGE ALTITUDE: " followed by the signed target.z - z.
C16_AltitudeRule ==
    telemetry_data # None =>
       /\ AltitudeSent <=> AltitudeOutOfTolerance(LastSnapshot)
       /\ AltitudeSent =>
             /\ Len(last_run.sends) = 1
             /\ last_run.sends[1].param1 = Z_SPEED
             /\ last_run.sends[1].param7 = target.z
             /\ ~last_run.raised =>
                   last_run.result =
                      Some(<<TRUE, Some(<<"CHANGE ALTITUDE",
                                          target.z - Val(LastSnapshot.z)>>)>>)

\* the drone is 2 m below the target altitude: the status carries 2 m
C16_Witness ==
    /\ DeltaZIs(200)
    /\ AltitudeSent
    /\ last_run.sends[1].param7 = target.z
    /\ last_run.result = Some(<<TRUE, Some(<<"CHANGE ALTITUDE", 200>>)>>)

\* the last snapshot carries x, y and yaw
PosePresent ==
    LastSnapshot.x # None /\ LastSnapshot.y # None /\ LastSnapshot.yaw # None

\* delta_yaw_deg of the last run (line 171)
LastDeltaYawDeg == degrees(Val(last_run.delta_yaw))

\* C17: when a run sends no altitude command and x, y and yaw are present,
\* it sends a yaw command if and only if |delta_yaw_deg| > ANGLE_TOLERANCE
\* (exactly 5 degrees sends nothing); the command's magnitude is
\* |delta_yaw_deg|, its direction is +1 when delta_yaw_deg >= 0 and -1
\* otherwise, and its relative flag is 1.
C17_YawRule ==
    (telemetry_data # None /\ ~AltitudeSent /\ PosePresent) =>
       /\ last_run.delta_yaw # None
       /\ YawSent <=> Abs(LastDeltaYawDeg) > ANGLE_TOLERANCE
       /\ YawSent =>
             /\ Len(last_run.sends) = 1
             /\ last_run.sends[1].param1 = Abs(LastDeltaYawDeg)
             /\ last_run.sends[1].param3 =
                    IF LastDeltaYawDeg >= 0 THEN 1 ELSE -1
             /\ last_run.sends[1].param4 = 1

\* the drone is at the target altitude and its heading is exactly 5 degrees
\* off the bearing: nothing is sent
C17_Witness ==
    /\ DeltaZIs(0)
    /\ PosePresent
    /\ last_run.delta_yaw # None
    /\ LastDeltaYawDeg = ANGLE_TOLERANCE
    /\ last_run.sends = << >>
    /\ last_run.result = Some(<<FALSE, None>>)

\* C18: an absent field suppresses its own check and nothing else.  With z
\* absent, or present and within tolerance, no altitude command is sent and
\* the yaw check is still evaluated on a snapshot that has x, y and yaw; with
\* any of x, y, yaw absent the yaw check is not evaluated and no yaw command
\* is sent; and no run on a snapshot raises unless a send raises.
C18_AbsentFields ==
    telemetry_data # None =>
       /\ (LastSnapshot.z = None \/ ~AltitudeOutOfTolerance(LastSnapshot)) =>
             /\ ~AltitudeSent
             /\ PosePresent =>
                   /\ last_run.delta_yaw # None
                   /\ YawSent <=> YawOutOfTolerance(LastSnapshot)
       /\ ~PosePresent => ~YawSent /\ last_run.delta_yaw = None
       /\ last_run.raised => last_run.sends # << >>

\* a snapshot without z whose heading is off the bearing: the yaw command is
\* sent
C18_Witness ==
    /\ telemetry_data # None
    /\ LastSnapshot.z = None
    /\ PosePresent
    /\ YawSent
    /\ last_run.result # None
    /\ Val(last_run.result)[1]

---------------------------------------------------------------------------
(* Properties of the command worker's output (checked under SpecCommand)   *)

\* this step dequeues a snapshot and hands it to Command.run
SnapshotStep ==
    /\ dequeued' = dequeued + 1
    /\ Head(input_queue) # None

\* the run just made sent a command: its command_long_send call returned.
\* (A call that raised has sent nothing the worker knows of: the exception
\* is caught at line 91 of the worker.)
CommandSent(run) == run.sends # << >> /\ ~run.raised

\* the snapshot on which nothing is to be done: at the target altitude,
\* heading on the bearing to the target
OnCourse(td) ==
    /\ td.x = Some(0) /\ td.y = Some(0)
    /\ td.z = Some(target.z) /\ td.yaw = Some(0)

\* C19: for every snapshot it dequeues the command worker puts a status on
\* its output queue if and only if Command.run sent a command for that
\* snapshot, and the status is the one run returned; a snapshot within both
\* tolerances sends nothing and puts nothing.  So the number of statuses
\* enqueued is the number of commands sent and at most the number of
\* snapshots dequeued.
C19_StatusIffCommand ==
    /\ [][SnapshotStep =>
             /\ command_output_queue' =
                    IF CommandSent(last_run')
                    THEN Append(command_output_queue,
                                Val(Val(last_run'.result)[2]))
                    ELSE command_output_queue
             /\ OnCourse(Val(Head(input_queue))) =>
                    /\ last_run'.sends = << >>
                    /\ command_output_queue' = command_output_queue]_vars
    /\ [](/\ Len(command_output_queue) = commands_sent - sends_raised
          /\ Len(command_output_queue) <= run_calls
          /\ run_calls <= dequeued)

\* three snapshots dequeued: one on course, one whose send raised, one whose
\* command was sent and whose status is the only one on the output queue
C19_Witness ==
    /\ dequeued = 3
    /\ run_calls = 3
    /\ commands_sent = 2
    /\ sends_raised = 1
    /\ Len(command_output_queue) = 1
    /\ CommandSent(last_run)

---------------------------------------------------------------------------
(* The receiver as a state machine (checked under SpecHeartbeat)           *)

\* this step is a poll of the receiver
PollStep == Len(recv_log') = Len(recv_log) + 1
\* this step is a poll that missed (timeout or exception)
MissStep == PollStep /\ recv_log'[Len(recv_log')] # "HEARTBEAT"

\* C20: the receiver has two states and starts Disconnected with a missed
\* counter of 0; a missed poll adds one to the counter, makes the state
\* Disconnected when the counter has reached DISCONNECT_THRESHOLD and leaves
\* it as it was otherwise, so a Disconnected receiver stays Disconnected
\* through every further miss; only a poll that receives a heartbeat leaves
\* Disconnected.
C20_TwoStateMachine ==
    /\ [](/\ is_connected \in BOOLEAN
          /\ recv_log = << >> => ~is_connected /\ missed_heartbeats = 0)
    /\ [][/\ MissStep =>
               /\ missed_heartbeats' = missed_heartbeats + 1
               /\ missed_heartbeats' >= DISCONNECT_THRESHOLD => ~is_connected'
               /\ missed_heartbeats' < DISCONNECT_THRESHOLD =>
                      is_connected' = is_connected
               /\ ~is_connected => ~is_connected'
          /\ (~is_connected /\ is_connected') =>
               PollStep /\ recv_log'[Len(recv_log')] = "HEARTBEAT"]_vars

\* a receiver that was Connected, went Disconnected at the threshold and has
\* missed once more
C20_Witness ==
    /\ Len(recv_log) = DISCONNECT_THRESHOLD + 2
    /\ recv_log[1] = "HEARTBEAT"
    /\ \A i \in 2..Len(recv_log) : recv_log[i] # "HEARTBEAT"
    /\ missed_heartbeats = DISCONNECT_THRESHOLD + 1
    /\ ~is_connected

\* the status string of the receiver's state
StateName(connected) == IF connected THEN "connected" ELSE "disconnected"

\* C21: every poll, whatever recv_match did and whether or not the state
\* changed, returns success with the status of the state as it is after the
\* poll, so the receiver worker puts exactly one status on its output queue
\* per poll: the queue holds one status for each poll made.
C21_OneStatusPerPoll ==
    /\ [][PollStep =>
             heartbeat_output_queue' =
                Append(heartbeat_output_queue, StateName(is_connected'))]_vars
    /\ [](Len(heartbeat_output_queue) = Len(recv_log))

\* two heartbeats in a row, then a miss below the threshold: the state did
\* not change in the last two polls and a status was put for each
C21_Witness ==
    /\ recv_log = <<"HEARTBEAT", "HEARTBEAT", "timeout">>
    /\ is_connected
    /\ heartbeat_output_queue = <<"connected", "connected", "connected">>

---------------------------------------------------------------------------
(* The velocity accumulator (checked under SpecDecide)                     *)

\* this step is a call of Command.run
RunStep == run_calls' = run_calls + 1

\* the snapshot carries all three velocity components
VelocityComplete(td) ==
    td.x_velocity # None /\ td.y_velocity # None /\ td.z_velocity # None

\* C22: the sample count of a Command object never decreases and is never
\* reset: a run adds exactly one to it when the snapshot carries x_velocity,
\* y_velocity and z_velocity, and leaves the count and the three running
\* sums as they were when a component is absent or there is no snapshot.
C22_SampleCountMonotone ==
    [][/\ sample_count' >= sample_count
       /\ RunStep =>
             IF telemetry_data' # None /\ VelocityComplete(Val(telemetry_data'))
             THEN sample_count' = sample_count + 1
             ELSE UNCHANGED cmdObjVars]_vars

\* of two runs one had a complete velocity reading; the last had not and
\* left the accumulator where the first had put it
C22_Witness ==
    /\ run_calls = 2
    /\ telemetry_data # None
    /\ ~VelocityComplete(LastSnapshot)
    /\ sample_count = 1
    /\ total_velocity_x = 2

---------------------------------------------------------------------------
(* The telemetry worker's polls (checked under SpecTelemetry)              *)

\* this step is the return of a Telemetry.run call to the worker
RunReturns ==
    /\ pc["telemetry"] = "recv"
    /\ pc'["telemetry"] \notin {"recv", "crashed"}

\* C23: a poll that times out is a normal outcome: when Telemetry.run
\* returns no snapshot the telemetry worker puts nothing on its output queue
\* and goes on to its next iteration, when it returns a snapshot the worker
\* puts exactly that snapshot; a timeout never ends the worker.
C23_TimeoutIsNormal ==
    [][RunReturns =>
          /\ pc'["telemetry"] = "check_exit"
          /\ telemetry_output_queue' =
                 IF telemetry_result' = None
                 THEN telemetry_output_queue
                 ELSE Append(telemetry_output_queue, Val(telemetry_result'))]_vars

\* a poll that returned a snapshot, then a poll that received one message
\* and timed out: the queue still holds the one snapshot and the worker is
\* back at its exit test
C23_Witness ==
    /\ pc["telemetry"] = "check_exit"
    /\ received = 3
    /\ call_start = 2
    /\ telemetry_result = None
    /\ elapsed >= TELEMETRY_TIMEOUT
    /\ Len(telemetry_output_queue) = 1

---------------------------------------------------------------------------
(* The receiver's counter and state (checked under SpecHeartbeat)          *)

\* C24: whenever the receiver is Connected its missed counter is strictly
\* below DISCONNECT_THRESHOLD.  (The converse need not hold: a receiver that
\* has never received a heartbeat is Disconnected with a counter below the
\* threshold.)
C24_ConnectedImpliesFewMisses ==
    is_connected => missed_heartbeats < DISCONNECT_THRESHOLD

\* a Connected receiver one miss away from the threshold
C24_Witness ==
    /\ is_connected
    /\ missed_heartbeats = DISCONNECT_THRESHOLD - 1
    /\ recv_log[Len(recv_log)] = "error"

\* the slot holds the message the link delivered as its n-th
Holds(slot, n) == slot # None /\ Val(slot).seq = n

\* C25: within one Telemetry.run call a message replaces the earlier
\* message of its type and leaves the other slot alone, and the call goes on
\* receiving only while a slot is empty; so a returned snapshot is built from
\* the last attitude and the last position message of the call, and the last
\* message the call received is one of the two.
C25_LastOfEachType ==
    /\ [][received' = received + 1 =>
             \/ /\ Holds(attitude_data', received')
                /\ position_data' = position_data
             \/ /\ Holds(position_data', received')
                /\ attitude_data' = attitude_data]_vars
    /\ [](pc["telemetry"] = "recv" => ~BothSlotsFilled(Slots))
    /\ []((TelemetryReturned /\ telemetry_result # None) =>
             /\ BothSlotsFilled(Slots)
             /\ Max(Val(attitude_data).seq, Val(position_data).seq) = received
             /\ Val(telemetry_result).yaw = Some(Val(attitude_data).yaw)
             /\ Val(telemetry_result).x = Some(Val(position_data).x))

\* a call that received an attitude message, then a second one that
\* replaced it, then the position message that completed the snapshot
C25_Witness ==
    /\ TelemetryReturned
    /\ telemetry_result # None
    /\ received = call_start + 3
    /\ Holds(attitude_data, call_start + 2)
    /\ Holds(position_data, received)
    /\ Val(telemetry_result).yaw = Some(9)

---------------------------------------------------------------------------
(* Termination of the worker loops (checked under SpecLive)                *)

\* worker w has left its function
Terminated(w) == pc[w] \in {"exited", "returned", "crashed"}

\* worker w is blocked in check_pause
HeldAtPause(w) == pc[w] = "check_pause" /\ pause_requested

\* the model lets worker w do one more unit of work
WithinBounds(w) ==
    CASE w = "heartbeat_receiver" -> Len(recv_log) < MaxPolls
      [] w = "heartbeat_sender" -> iterations < MaxBeats
      [] OTHER -> TRUE

\* a worker that was started is still in its loop and the model lets it do
\* one more unit of work
SomeWorkerToStop ==
    \E w \in Workers : Running(w) /\ ~Terminated(w) /\ WithinBounds(w)

\* every worker that was started has left its function
AllStopped == \A w \in Workers : Running(w) => Terminated(w)

\* C26: once the exit flag is set a worker begins at most one more unit of
\* work, and unless it is held in check_pause for ever it terminates.  (A
\* behaviour follows one worker; the statement is made for whichever worker
\* that is.)
C26_ExitTerminatesWorker ==
    /\ [](\A w \in Workers : begun_after_exit[w] <= 1)
    /\ []<>~(\E w \in Workers : HeldAtPause(w)) =>
          ((exit_requested /\ SomeWorkerToStop) ~> AllStopped)

\* the heartbeat sender began a send after the exit flag was set (it had
\* read the flag before), finished it and left its loop
C26_Witness ==
    /\ pc["heartbeat_sender"] = "exited"
    /\ exit_requested
    /\ begun_after_exit["heartbeat_sender"] = 1
    /\ iterations > 0

---------------------------------------------------------------------------
(* The times of the sender's sends (checked under SpecSender)              *)

\* this step is an iteration of the sender's loop
SendStep == iterations' = iterations + 1

\* C27: no sleep precedes the first send; the k-th send never begins before
\* t0 + (k-1) * HEARTBEAT_PERIOD; and an iteration that finds the clock at or
\* past the new deadline does not sleep, so that the next send can follow
\* less than one period after this one.
C27_SendTimes ==
    /\ [](iterations = 0 => last_sleep = 0 /\ send_times = << >>)
    /\ [](\A k \in 1..Len(send_times) :
             send_times[k] >= t0 + (k - 1) * HEARTBEAT_PERIOD)
    /\ [][(SendStep /\ now_read' >= next_heartbeat_time') =>
             last_sleep' = 0 /\ clock' = now_read']_vars

\* a first send that took longer than a period, after which the worker did
\* not sleep: the second send began on time for its deadline and the third
\* less than one period after the second
C27_Witness ==
    /\ Len(send_times) = 3
    /\ send_times[1] = t0
    /\ send_times[2] > t0 + HEARTBEAT_PERIOD
    /\ send_times[3] - send_times[2] < HEARTBEAT_PERIOD
    /\ send_times[3] >= t0 + 2 * HEARTBEAT_PERIOD

===========================================================================
